---- MODULE Spec2Model ----
(***************************************************************************)
(* Bollinger band scanner (src/app.py): get_data, calculate_bollinger_bands *)
(* and the run of main().                                                   *)
(*                                                                          *)
(* Numbers.  The program computes in binary floating point; the model       *)
(* computes the same expressions in exact arithmetic.  Every value of one   *)
(* row of the frame lies in Q(sqrt r) for one integer r (the radicand of    *)
(* that row's rolling standard deviation), so a value is the record         *)
(*     [k |-> "num", a, b, r, d]   standing for   (a + b*sqrt(r)) / d       *)
(* kept canonical (d > 0, gcd(a,b,d) = 1, r square-free and > 1 when        *)
(* b # 0, r = 0 when b = 0), so that equal values are equal records.        *)
(* k = "nan" is NaN, k = "inf" is +/- infinity (sign in a).                 *)
(***************************************************************************)
EXTENDS Integers, Sequences, FiniteSets, TLC

\* the element of a singleton.  Only({e(v) : v \in {x}}) is e(x) with x
\* evaluated once, as the operand of a Python expression is
Only(S) == CHOOSE z \in S : TRUE

Abs(x) == IF x < 0 THEN -x ELSE x

RECURSIVE GCD(_, _)
GCD(x, y) == IF y = 0 THEN x ELSE GCD(y, x % y)

\* <<f, s>> with n = f*f*s and s square-free (called with f = 2, acc = 1)
RECURSIVE SquarePart(_, _, _)
SquarePart(n, f, acc) ==
    IF f * f > n THEN <<acc, n>>
    ELSE IF n % (f * f) = 0 THEN SquarePart(n \div (f * f), f, acc * f)
    ELSE SquarePart(n, f + 1, acc)

NaN == [k |-> "nan", a |-> 0, b |-> 0, r |-> 0, d |-> 1]
Inf(s) == [k |-> "inf", a |-> s, b |-> 0, r |-> 0, d |-> 1]

\* a/d + (b/d)*sqrt(r) with the common factor of a, b, d removed and d > 0
Reduced(a, b, r, d) ==
    Only({[k |-> "num",
           a |-> (IF d < 0 THEN -1 ELSE 1) * (a \div g),
           b |-> (IF d < 0 THEN -1 ELSE 1) * (b \div g),
           r |-> r,
           d |-> Abs(d) \div g] : g \in {GCD(GCD(Abs(a), Abs(b)), Abs(d))}})

\* (a + b*sqrt(r)) / d in canonical form; d # 0, r >= 0
Mk(a, b, r, d) ==
    IF b = 0 \/ r = 0 THEN Reduced(a, 0, 0, d)
    ELSE Only({IF sp[2] = 1 THEN Reduced(a + b * sp[1], 0, 0, d)
               ELSE Reduced(a, b * sp[1], sp[2], d) : sp \in {SquarePart(r, 2, 1)}})

Whole(n) == Mk(n, 0, 0, 1)
Rat(n, d) == Mk(n, 0, 0, d)

IsNum(x) == x.k = "num"
IsNaN(x) == x.k = "nan"

Sign(n) == IF n > 0 THEN 1 ELSE IF n < 0 THEN -1 ELSE 0

\* sign of a + b*sqrt(r), r > 0 when b # 0
SgnSurd(a, b, r) ==
    IF b = 0 THEN Sign(a)
    ELSE IF a = 0 \/ Sign(a) = Sign(b) THEN Sign(b)
    ELSE IF a * a > b * b * r THEN Sign(a)
    ELSE IF a * a < b * b * r THEN Sign(b)
    ELSE 0

\* sign of a value: -1, 0, 1 (NaN has none: 0)
Sgn(x) ==
    Only({IF v.k = "num" THEN SgnSurd(v.a, v.b, v.r)
          ELSE IF v.k = "inf" THEN v.a
          ELSE 0 : v \in {x}})

Rad(x, y) == IF x.b # 0 THEN x.r ELSE y.r

Neg(x) ==
    Only({IF IsNum(v) THEN Mk(-v.a, -v.b, v.r, v.d)
          ELSE IF v.k = "inf" THEN Inf(-v.a)
          ELSE NaN : v \in {x}})

Add(x, y) ==
    Only({IF IsNum(v) /\ IsNum(w)
          THEN Mk(v.a * w.d + w.a * v.d, v.b * w.d + w.b * v.d, Rad(v, w), v.d * w.d)
          ELSE IF IsNaN(v) \/ IsNaN(w) THEN NaN
          ELSE IF IsNum(v) THEN w
          ELSE IF IsNum(w) \/ v.a = w.a THEN v
          ELSE NaN : v \in {x}, w \in {y}})

Sub(x, y) == Add(x, Neg(y))

Mul(x, y) ==
    Only({IF IsNum(v) /\ IsNum(w)
          THEN Mk(v.a * w.a + v.b * w.b * Rad(v, w), v.a * w.b + v.b * w.a,
                  Rad(v, w), v.d * w.d)
          ELSE IF IsNaN(v) \/ IsNaN(w) \/ Sgn(v) = 0 \/ Sgn(w) = 0 THEN NaN
          ELSE Inf(Sgn(v) * Sgn(w)) : v \in {x}, w \in {y}})

\* 1/y for a number y # 0
Inverse(y) == Mk(y.d * y.a, -(y.d * y.b), y.r, y.a * y.a - y.b * y.b * y.r)

\* IEEE division: 0/0 is NaN, x/0 is an infinity, no exception
Div(x, y) ==
    Only({IF IsNum(v) /\ IsNum(w)
          THEN IF Sgn(w) = 0
               THEN (IF Sgn(v) = 0 THEN NaN ELSE Inf(Sgn(v)))
               ELSE Mul(v, Inverse(w))
          ELSE IF IsNaN(v) \/ IsNaN(w) THEN NaN
          ELSE IF IsNum(v) THEN Whole(0)
          ELSE IF IsNum(w) THEN Inf(v.a * (IF Sgn(w) < 0 THEN -1 ELSE 1))
          ELSE NaN : v \in {x}, w \in {y}})

\* square root of a rational
Sqrt(x) ==
    Only({IF IsNum(v) /\ v.b = 0
          THEN (IF v.a < 0 THEN NaN ELSE Mk(0, 1, v.a * v.d, v.d))
          ELSE IF v.k = "inf" /\ v.a > 0 THEN v
          ELSE NaN : v \in {x}})

\* comparisons: anything compared with NaN is false
Lt(x, y) == Only({~IsNaN(diff) /\ Sgn(diff) < 0 : diff \in {Sub(x, y)}})
Gt(x, y) == Lt(y, x)
Ge(x, y) == Only({~IsNaN(diff) /\ Sgn(diff) >= 0 : diff \in {Sub(x, y)}})
Eq(x, y) == Only({~IsNaN(diff) /\ Sgn(diff) = 0 : diff \in {Sub(x, y)}})

(***************************************************************************)
(* Data frames.  A frame is its row index (the timestamps, here the row     *)
(* numbers of the fetched series), the set of its column names and the      *)
(* columns.  Only the Close column of the fetched frame takes part in the   *)
(* computation; Open, High, Low and Volume are only drawn.                  *)
(***************************************************************************)
AllCols == {"Close", "Middle_Band", "STD", "Upper_Band", "Lower_Band",
            "Bandwidth", "Pct_B"}
BandCols == AllCols \ {"Close"}

\* pd.DataFrame(): no rows, no columns
EmptyFrame == [index |-> <<>>, columns |-> {}, col |-> [c \in AllCols |-> <<>>]]

\* a name that is not bound to a frame yet
Unbound == [index |-> <<>>, columns |-> {"<unbound>"},
            col |-> [c \in AllCols |-> <<>>]]

\* the frame yf.download returns for a series of closes
Frame(closes) ==
    [index   |-> [i \in 1..Len(closes) |-> i],
     columns |-> {"Close"},
     col     |-> [c \in AllCols |->
                    IF c = "Close" THEN [i \in 1..Len(closes) |-> Whole(closes[i])]
                    ELSE <<>>]]

\* df.empty: some axis has length 0
Empty(df) == Len(df.index) = 0 \/ df.columns = {}

\* df[name] = values
SetCol(df, name, values) ==
    [df EXCEPT !.columns = @ \cup {name}, !.col[name] = values]

\* element-wise arithmetic of two columns
ColAdd(xs, ys) ==
    Only({[i \in 1..Len(u) |-> Add(u[i], v[i])] : u \in {xs}, v \in {ys}})
ColSub(xs, ys) ==
    Only({[i \in 1..Len(u) |-> Sub(u[i], v[i])] : u \in {xs}, v \in {ys}})
ColDiv(xs, ys) ==
    Only({[i \in 1..Len(u) |-> Div(u[i], v[i])] : u \in {xs}, v \in {ys}})
ColScale(xs, k) ==
    Only({[i \in 1..Len(u) |-> Mul(u[i], c)] : u \in {xs}, c \in {k}})

\* RollSum without the removal of the value that leaves the window
RECURSIVE RollSumNoRemove(_, _, _)
RollSumNoRemove(xs, w, i) ==
    IF i = 0 THEN Whole(0) ELSE Add(RollSumNoRemove(xs, w, i - 1), xs[i])

\* the sum over the trailing window ending at row i, kept as a running sum:
\* each step adds the entering value and removes the one leaving the window
RECURSIVE RollSum(_, _, _)
RollSum(xs, w, i) ==
    IF i = 0 THEN Whole(0)
    ELSE Sub(Add(RollSum(xs, w, i - 1), xs[i]),
             IF i > w THEN xs[i - w] ELSE Whole(0))

Squares(xs) == [i \in 1..Len(xs) |-> Mul(xs[i], xs[i])]

\* the sample variance (ddof = 1) from the window's sum s and sum of squares q
SampleVar(s, q, w) == Div(Sub(q, Div(Mul(s, s), Whole(w))), Whole(w - 1))

\* Series.rolling(window).mean(): NaN until the window is full
RollingMean(xs, w) ==
    Only({[i \in 1..Len(u) |->
             IF i < w THEN NaN ELSE Div(RollSum(u, w, i), Whole(w))] : u \in {xs}})

\* Series.rolling(window).std(): sample standard deviation, NaN until the
\* window is full
RollingStd(xs, w) ==
    Only({[i \in 1..Len(u) |->
             IF i < w THEN NaN
             ELSE Sqrt(SampleVar(RollSum(u, w, i), RollSum(sq, w, i), w))] :
          u \in {xs}, sq \in {Squares(xs)}})

\* Upper_Band with the deviation subtracted
Upper_BandMinus(df, num_std_dev) ==
    ColSub(df.col["Middle_Band"], ColScale(df.col["STD"], num_std_dev))

Upper_Band(df, num_std_dev) ==
    ColAdd(df.col["Middle_Band"], ColScale(df.col["STD"], num_std_dev))

Lower_Band(df, num_std_dev) ==
    ColSub(df.col["Middle_Band"], ColScale(df.col["STD"], num_std_dev))

Bandwidth(df) ==
    ColScale(ColDiv(ColSub(df.col["Upper_Band"], df.col["Lower_Band"]),
                    df.col["Middle_Band"]), Whole(100))

\* Pct_B measured from the middle band
Pct_BFromMiddle(df) ==
    ColDiv(ColSub(df.col["Close"], df.col["Middle_Band"]),
           ColSub(df.col["Upper_Band"], df.col["Lower_Band"]))

Pct_B(df) ==
    ColDiv(ColSub(df.col["Close"], df.col["Lower_Band"]),
           ColSub(df.col["Upper_Band"], df.col["Lower_Band"]))

\* the column assignments of calculate_bollinger_bands, made on df itself
\* (each assignment reads the frame as the assignments before it left it)
AssignMiddle(df, window_) ==
    Only({SetCol(d, "Middle_Band", RollingMean(d.col["Close"], window_)) : d \in {df}})
AssignStd(df, window_) ==
    Only({SetCol(d, "STD", RollingStd(d.col["Close"], window_)) : d \in {df}})
AssignUpper(df, num_std_dev) ==
    Only({SetCol(d, "Upper_Band", Upper_Band(d, num_std_dev)) : d \in {df}})
AssignLower(df, num_std_dev) ==
    Only({SetCol(d, "Lower_Band", Lower_Band(d, num_std_dev)) : d \in {df}})
AssignBandwidth(df) ==
    Only({SetCol(d, "Bandwidth", Bandwidth(d)) : d \in {df}})
AssignPctB(df) ==
    Only({SetCol(d, "Pct_B", Pct_B(d)) : d \in {df}})

AssignBands(df, window_, num_std_dev) ==
    AssignPctB(AssignBandwidth(AssignLower(AssignUpper(
        AssignStd(AssignMiddle(df, window_), window_), num_std_dev), num_std_dev)))

\* the rows of df that hold no NaN, as row numbers
CompleteRows(df) ==
    SelectSeq([i \in 1..Len(df.index) |-> i],
              LAMBDA i : \A c \in df.columns : ~IsNaN(df.col[c][i]))

\* the rows `rows` of df, as a new frame
TakeRows(df, rows) ==
    [index   |-> [j \in 1..Len(rows) |-> df.index[rows[j]]],
     columns |-> df.columns,
     col     |-> [c \in AllCols |->
                    IF c \in df.columns
                    THEN [j \in 1..Len(rows) |-> df.col[c][rows[j]]]
                    ELSE <<>>]]

\* df.dropna(): a new frame without the rows that hold a NaN in some column
DropNa(df) == Only({TakeRows(d, rows) : d \in {df}, rows \in {CompleteRows(df)}})

\* TooShort without the length test
TooShortNoLength(df, window_) == "Close" \notin df.columns

\* the early return of calculate_bollinger_bands
TooShort(df, window_) == "Close" \notin df.columns \/ Len(df.index) < window_

\* what calculate_bollinger_bands returns
calculate_bollinger_bands(df, window_, num_std_dev) ==
    IF TooShort(df, window_) THEN df
    ELSE DropNa(AssignBands(df, window_, num_std_dev))

\* ArgumentAfter had the rows been dropped in place (dropna(inplace=True))
ArgumentAfterDropInPlace(df, window_, num_std_dev) ==
    calculate_bollinger_bands(df, window_, num_std_dev)

\* what calculate_bollinger_bands leaves in its argument
ArgumentAfter(df, window_, num_std_dev) ==
    IF TooShort(df, window_) THEN df
    ELSE AssignBands(df, window_, num_std_dev)

(***************************************************************************)
(* Bounds of the model and the inputs drawn within them.                    *)
(***************************************************************************)
\* closes are whole prices 1..MaxClose
MaxClose == 2
\* longest series the provider returns in a run of main
MaxLen == 6
\* smallest window the sidebar accepts (number_input min_value)
MinWindow == 5
\* largest window drawn in a run of main (the sidebar accepts up to 100)
MaxWindow == 6
\* longest series and largest window handed to calculate_bollinger_bands alone
BandsLen == 5
BandsWindow == 3
\* longest series of the pair compared for causality
PairLen == 3

SeriesUpTo(n) == UNION {[1..m -> 1..MaxClose] : m \in 0..n}

\* the multiplier, in tenths (the sidebar steps by 0.1 from 1.0 to 3.0)
NumStdTenths == {10, 11, 20}
NumStds == {Rat(t, 10) : t \in NumStdTenths}

Tickers == {"", "GOOG"}

VARIABLES
    pc,             \* where the run is
    ticker_symbol,  \* sidebar inputs
    window,
    num_std,
    data,           \* the fetched frame (calculate_bollinger_bands writes into it)
    df_bb,          \* what calculate_bollinger_bands returned
    df_again,       \* what a second call on the same frame returned
    data2,          \* a second series and its bands
    df_bb2,
    messages,       \* what the page shows, in order
    status_text,    \* the signal status, "" before it is set
    raised,         \* the exception that ended the run, "" when none
    fetch_raised    \* the provider raised in get_data

vars == <<pc, ticker_symbol, window, num_std, data, df_bb, df_again, data2,
          df_bb2, messages, status_text, raised, fetch_raised>>

(***************************************************************************)
(* get_data: the provider raises, or returns a frame (an empty one when it  *)
(* has no rows for the symbol).                                             *)
(***************************************************************************)
FetchOutcomes ==
    {[raises |-> TRUE, frame |-> EmptyFrame]}
    \cup {[raises |-> FALSE, frame |-> EmptyFrame]}
    \cup {[raises |-> FALSE, frame |-> Frame(s)] : s \in SeriesUpTo(MaxLen) \ {<<>>}}

\* get_data without the try/except: the exception leaves get_data
get_data_unguarded(outcome) ==
    IF outcome.raises
    THEN [data |-> EmptyFrame, shown |-> <<>>, raised |-> "Exception"]
    ELSE [data |-> outcome.frame, shown |-> <<>>, raised |-> ""]

\* [data, shown, raised]: the try/except turns an exception into st.error
\* and an empty frame
get_data(outcome) ==
    IF outcome.raises
    THEN [data |-> EmptyFrame, shown |-> <<"error: fetching data">>, raised |-> ""]
    ELSE [data |-> outcome.frame, shown |-> <<>>, raised |-> ""]

\* latest_data = df_bb.iloc[-1]; the status main() derives from it
Latest(df, c) == df.col[c][Len(df.index)]

\* SignalStatusText with the two band columns exchanged
SignalStatusTextSwapped(df) ==
    LET is_overbought == Gt(Latest(df, "Close"), Latest(df, "Lower_Band"))
        is_oversold   == Lt(Latest(df, "Close"), Latest(df, "Upper_Band"))
    IN  IF is_overbought THEN "Overbought"
        ELSE IF is_oversold THEN "Oversold"
        ELSE "Neutral"

SignalStatusText(df) ==
    LET is_overbought == Gt(Latest(df, "Close"), Latest(df, "Upper_Band"))
        is_oversold   == Lt(Latest(df, "Close"), Latest(df, "Lower_Band"))
    IN  IF is_overbought THEN "Overbought"
        ELSE IF is_oversold THEN "Oversold"
        ELSE "Neutral"

\* plot_bollinger_bands: a warning instead of the chart when there are no bands
plot_bollinger_bands(df) ==
    IF Empty(df) \/ "Upper_Band" \notin df.columns
    THEN "warning: insufficient data to plot"
    ELSE "chart"

(***************************************************************************)
(* One run of main().                                                       *)
(***************************************************************************)
Init ==
    /\ pc = "sidebar"
    /\ ticker_symbol = ""
    /\ window = 0
    /\ num_std = Whole(0)
    /\ data = Unbound
    /\ df_bb = Unbound
    /\ df_again = Unbound
    /\ data2 = Unbound
    /\ df_bb2 = Unbound
    /\ messages = <<>>
    /\ status_text = ""
    /\ raised = ""
    /\ fetch_raised = FALSE

\* the sidebar inputs; a date range of one date ends the run with a warning
Sidebar ==
    /\ pc = "sidebar"
    /\ \E t \in Tickers, w \in MinWindow..MaxWindow, k \in NumStds, dates \in {1, 2} :
          /\ ticker_symbol' = t
          /\ window' = w
          /\ num_std' = k
          /\ IF dates = 2
             THEN pc' = "main_area" /\ messages' = messages
             ELSE /\ pc' = "done"
                  /\ messages' = Append(messages, "warning: select start and end date")
    /\ UNCHANGED <<data, df_bb, df_again, data2, df_bb2, status_text, raised,
                   fetch_raised>>

\* if ticker_symbol: ... elif not ticker_symbol: st.info
MainArea ==
    /\ pc = "main_area"
    /\ IF ticker_symbol # ""
       THEN pc' = "get_data" /\ messages' = messages
       ELSE pc' = "done" /\ messages' = Append(messages, "info: enter a ticker")
    /\ UNCHANGED <<ticker_symbol, window, num_std, data, df_bb, df_again, data2,
                   df_bb2, status_text, raised, fetch_raised>>

\* data = get_data(ticker_symbol, start_date, end_date)
GetData ==
    /\ pc = "get_data"
    /\ \E outcome \in FetchOutcomes :
          LET got == get_data(outcome)
          IN  /\ fetch_raised' = outcome.raises
              /\ messages' = messages \o got.shown
              /\ IF got.raised = ""
                 THEN data' = got.data /\ pc' = "fetched" /\ raised' = raised
                 ELSE data' = data /\ pc' = "crashed" /\ raised' = got.raised
    /\ UNCHANGED <<ticker_symbol, window, num_std, df_bb, df_again, data2, df_bb2,
                   status_text>>

\* if not data.empty: df_bb = calculate_bollinger_bands(data, window, num_std)
CalculateBands ==
    /\ pc = "fetched"
    /\ ~Empty(data)
    /\ df_bb' = calculate_bollinger_bands(data, window, num_std)
    /\ data' = ArgumentAfter(data, window, num_std)
    /\ pc' = "calculated"
    /\ UNCHANGED <<ticker_symbol, window, num_std, df_again, data2, df_bb2,
                   messages, status_text, raised, fetch_raised>>

\* data.empty: nothing more is shown
NoData ==
    /\ pc = "fetched"
    /\ Empty(data)
    /\ pc' = "done"
    /\ UNCHANGED <<ticker_symbol, window, num_std, data, df_bb, df_again, data2,
                   df_bb2, messages, status_text, raised, fetch_raised>>

\* if not df_bb.empty: plot_bollinger_bands(df_bb, ticker_symbol)
Plot ==
    /\ pc = "calculated"
    /\ ~Empty(df_bb)
    /\ messages' = Append(messages, plot_bollinger_bands(df_bb))
    /\ pc' = "signal_status"
    /\ UNCHANGED <<ticker_symbol, window, num_std, data, df_bb, df_again, data2,
                   df_bb2, status_text, raised, fetch_raised>>

\* else: st.warning("Not enough data ...")
NotEnoughData ==
    /\ pc = "calculated"
    /\ Empty(df_bb)
    /\ messages' = Append(messages, "warning: not enough data")
    /\ pc' = "done"
    /\ UNCHANGED <<ticker_symbol, window, num_std, data, df_bb, df_again, data2,
                   df_bb2, status_text, raised, fetch_raised>>

\* latest_data['Upper_Band'] raises KeyError when the row has no such label
SignalStatus ==
    /\ pc = "signal_status"
    /\ IF {"Close", "Upper_Band", "Lower_Band"} \subseteq df_bb.columns
       THEN /\ status_text' = SignalStatusText(df_bb)
            /\ pc' = "display"
            /\ raised' = raised
       ELSE /\ status_text' = status_text
            /\ pc' = "crashed"
            /\ raised' = "KeyError"
    /\ UNCHANGED <<ticker_symbol, window, num_std, data, df_bb, df_again, data2,
                   df_bb2, messages, fetch_raised>>

\* the four metrics and the last rows
Display ==
    /\ pc = "display"
    /\ messages' = messages \o <<"metrics", "raw data">>
    /\ pc' = "done"
    /\ UNCHANGED <<ticker_symbol, window, num_std, data, df_bb, df_again, data2,
                   df_bb2, status_text, raised, fetch_raised>>

Next ==
    \/ Sidebar
    \/ MainArea
    \/ GetData
    \/ CalculateBands
    \/ NoData
    \/ Plot
    \/ NotEnoughData
    \/ SignalStatus
    \/ Display

Spec == Init /\ [][Next]_vars

(***************************************************************************)
(* calculate_bollinger_bands on its own: called on a series, and called     *)
(* again on the same frame with the same parameters.                        *)
(***************************************************************************)
InitBands ==
    /\ pc = "first"
    /\ ticker_symbol = ""
    /\ window \in 2..BandsWindow
    /\ num_std \in NumStds
    /\ data \in {Frame(s) : s \in SeriesUpTo(BandsLen)}
    /\ df_bb = Unbound
    /\ df_again = Unbound
    /\ data2 = Unbound
    /\ df_bb2 = Unbound
    /\ messages = <<>>
    /\ status_text = ""
    /\ raised = ""
    /\ fetch_raised = FALSE

FirstCall ==
    /\ pc = "first"
    /\ df_bb' = calculate_bollinger_bands(data, window, num_std)
    /\ data' = ArgumentAfter(data, window, num_std)
    /\ pc' = "second"
    /\ UNCHANGED <<ticker_symbol, window, num_std, df_again, data2, df_bb2,
                   messages, status_text, raised, fetch_raised>>

SecondCall ==
    /\ pc = "second"
    /\ df_again' = calculate_bollinger_bands(data, window, num_std)
    /\ data' = ArgumentAfter(data, window, num_std)
    /\ pc' = "done"
    /\ UNCHANGED <<ticker_symbol, window, num_std, df_bb, data2, df_bb2,
                   messages, status_text, raised, fetch_raised>>

NextBands == FirstCall \/ SecondCall

SpecBands == InitBands /\ [][NextBands]_vars

(***************************************************************************)
(* calculate_bollinger_bands on two series.                                 *)
(***************************************************************************)
\* the closes of d1 and d2 agree on some full window ending at the same row
SharesWindow(d1, d2, w) ==
    \E i \in w..Len(d1.index) :
        /\ i <= Len(d2.index)
        /\ \A j \in (i - w + 1)..i : d1.col["Close"][j] = d2.col["Close"][j]

\* the pairs drawn are those that share a window: the others have no row to compare
InitPair ==
    /\ pc = "first"
    /\ ticker_symbol = ""
    /\ window \in 2..BandsWindow
    /\ num_std \in NumStds
    /\ data \in {Frame(s) : s \in SeriesUpTo(PairLen)}
    /\ data2 \in {Frame(s) : s \in SeriesUpTo(PairLen)}
    /\ SharesWindow(data, data2, window)
    /\ df_bb = Unbound
    /\ df_again = Unbound
    /\ df_bb2 = Unbound
    /\ messages = <<>>
    /\ status_text = ""
    /\ raised = ""
    /\ fetch_raised = FALSE

OtherCall ==
    /\ pc = "second"
    /\ df_bb2' = calculate_bollinger_bands(data2, window, num_std)
    /\ data2' = ArgumentAfter(data2, window, num_std)
    /\ pc' = "done"
    /\ UNCHANGED <<ticker_symbol, window, num_std, data, df_bb, df_again,
                   messages, status_text, raised, fetch_raised>>

NextPair == FirstCall \/ OtherCall

SpecPair == InitPair /\ [][NextPair]_vars
(***************************************************************************)
(* Properties.                                                              *)
(***************************************************************************)
Range(seq) == {seq[i] : i \in 1..Len(seq)}

\* the closes the frame was fetched with (no call writes the Close column)
Closes(df) == df.col["Close"]

\* the bands of df were computed: the call did not return early
Computed(df) == BandCols \subseteq df.columns

\* rows of df whose trailing window is full
FullRows(df, w) == {i \in 1..Len(df.index) : i >= w}

\* all closes of the window ending at row i are equal: its deviation is zero
ZeroVolatility(df, w, i) == \A j \in (i - w + 1)..i : Closes(df)[j] = Closes(df)[i]

\* the positions in the returned frame of the row with timestamp i
Points(df, i) == {j \in 1..Len(df.index) : df.index[j] = i}

\* the classification thresholds the specification names
lowThreshold == Rat(5, 100)
highThreshold == Rat(95, 100)

\* C1: when the provider raises, get_data shows a fetch error, main() gets an
\* empty frame, computes no bands, sets no signal status, raises nothing and
\* runs to its end.
C1_FetchFailureContained ==
    fetch_raised =>
        /\ raised = ""
        /\ pc \in {"fetched", "done"}
        /\ "error: fetching data" \in Range(messages)
        /\ Empty(data)
        /\ df_bb = Unbound
        /\ status_text = ""
        /\ (pc = "fetched" => ENABLED NoData)

C1_Witness == fetch_raised /\ pc = "done"

\* C2 as stated: the status is Oversold exactly when the latest Pct_B is under
\* lowThreshold (0.05), Overbought exactly when it is over highThreshold
\* (0.95), Neutral otherwise.
C2_ThresholdClassification ==
    status_text # "" =>
        /\ (status_text = "Oversold") <=> Lt(Latest(df_bb, "Pct_B"), lowThreshold)
        /\ (status_text = "Overbought") <=> Gt(Latest(df_bb, "Pct_B"), highThreshold)
        /\ (status_text = "Neutral") <=>
              /\ ~Lt(Latest(df_bb, "Pct_B"), lowThreshold)
              /\ ~Gt(Latest(df_bb, "Pct_B"), highThreshold)

\* C2 amended: the status is Oversold exactly when the latest close is under
\* the latest lower band (Pct_B below 0), Overbought exactly when it is over
\* the upper band (Pct_B above 1), Neutral otherwise.
C2_BandClassification ==
    status_text # "" =>
        /\ (status_text = "Oversold")
              <=> Lt(Latest(df_bb, "Close"), Latest(df_bb, "Lower_Band"))
        /\ (status_text = "Oversold") <=> Lt(Latest(df_bb, "Pct_B"), Whole(0))
        /\ (status_text = "Overbought")
              <=> Gt(Latest(df_bb, "Close"), Latest(df_bb, "Upper_Band"))
        /\ (status_text = "Overbought") <=> Gt(Latest(df_bb, "Pct_B"), Whole(1))
        /\ (status_text = "Neutral") <=>
              /\ ~Lt(Latest(df_bb, "Pct_B"), Whole(0))
              /\ ~Gt(Latest(df_bb, "Pct_B"), Whole(1))

\* a close inside the bands but within 5% of the lower one: Neutral
C2_Witness ==
    /\ status_text = "Neutral"
    /\ Lt(Latest(df_bb, "Pct_B"), lowThreshold)
    /\ pc = "done"

\* C3: every full window of equal closes yields a band point with
\* upper = middle = lower and Pct_B = 0.5, classified Neutral when latest.
C3_ZeroVolatilityPoint ==
    (pc # "first" /\ Computed(data)) =>
        \A i \in FullRows(data, window) :
            ZeroVolatility(data, window, i) =>
                \E j \in Points(df_bb, i) :
                    /\ df_bb.col["Upper_Band"][j] = df_bb.col["Middle_Band"][j]
                    /\ df_bb.col["Lower_Band"][j] = df_bb.col["Middle_Band"][j]
                    /\ df_bb.col["Pct_B"][j] = Rat(1, 2)
                    /\ (i = Len(data.index) => SignalStatusText(df_bb) = "Neutral")

\* C4: on a series shorter than the window the call returns the frame as it
\* was, without band columns, and a call on a series that is long enough
\* returns a frame with the band columns: the caller can tell the two apart.
C4_InsufficientData ==
    pc # "first" =>
        /\ Len(data.index) < window =>
              /\ df_bb.columns \cap BandCols = {}
              /\ df_bb = Frame([i \in 1..Len(data.index) |-> Closes(data)[i].a])
        /\ Len(data.index) >= window => Computed(df_bb)

C4_Witness == pc = "second" /\ Len(data.index) \in 1..(window - 1)

\* C5: at every row with a full window upper >= middle >= lower, and the three
\* coincide exactly when the closes of the window are all equal (zero
\* deviation); in every returned band point likewise.
BandOrder(df, j, i) ==
    /\ Ge(df.col["Upper_Band"][j], df.col["Middle_Band"][j])
    /\ Ge(df.col["Middle_Band"][j], df.col["Lower_Band"][j])
    /\ (/\ Eq(df.col["Upper_Band"][j], df.col["Middle_Band"][j])
        /\ Eq(df.col["Middle_Band"][j], df.col["Lower_Band"][j]))
       <=> ZeroVolatility(data, window, i)

C5_BandOrder ==
    (pc # "first" /\ Computed(data)) =>
        /\ \A i \in FullRows(data, window) : BandOrder(data, i, i)
        /\ \A j \in 1..Len(df_bb.index) : BandOrder(df_bb, j, df_bb.index[j])

C5_Witness ==
    /\ pc = "second"
    /\ Computed(data)
    /\ \E i \in FullRows(data, window) : ZeroVolatility(data, window, i)
    /\ \E i \in FullRows(data, window) : ~ZeroVolatility(data, window, i)
    /\ Len(df_bb.index) > 0

\* C6: for n >= window closes the call returns one band point for each of the
\* rows window..n, in order, and none for the rows before.
C6_FullSequence ==
    (pc # "first" /\ Len(data.index) >= window) =>
        df_bb.index = [j \in 1..(Len(data.index) - window + 1) |-> j + window - 1]

\* C7: where upper # lower, Pct_B < 0 exactly when close < lower and Pct_B > 1
\* exactly when close > upper.
PctBAgrees(df, j) ==
    ~Eq(df.col["Upper_Band"][j], df.col["Lower_Band"][j]) =>
        /\ Lt(df.col["Pct_B"][j], Whole(0))
              <=> Lt(df.col["Close"][j], df.col["Lower_Band"][j])
        /\ Gt(df.col["Pct_B"][j], Whole(1))
              <=> Gt(df.col["Close"][j], df.col["Upper_Band"][j])

C7_PctBSign ==
    (pc # "first" /\ Computed(data)) =>
        /\ \A i \in FullRows(data, window) : PctBAgrees(data, i)
        /\ \A j \in 1..Len(df_bb.index) : PctBAgrees(df_bb, j)

C7_Witness ==
    /\ pc = "second"
    /\ Computed(df_bb)
    /\ \E j \in 1..Len(df_bb.index) :
          /\ Lt(df_bb.col["Pct_B"][j], Whole(0))
          /\ Lt(df_bb.col["Close"][j], df_bb.col["Lower_Band"][j])
    /\ \E j \in 1..Len(df_bb.index) :
          /\ ~Lt(df_bb.col["Pct_B"][j], Whole(0))
          /\ ~Gt(df_bb.col["Pct_B"][j], Whole(1))

\* C8: two series whose closes agree on the window ending at row i have the
\* same middle, upper, lower and Pct_B at row i, and the row is returned for
\* both or for neither, whatever the closes before the window and after i.
SameWindow(i) ==
    \A j \in (i - window + 1)..i : Closes(data)[j] = Closes(data2)[j]

BandValues(df, j) == [c \in {"Middle_Band", "Upper_Band", "Lower_Band", "Pct_B"} |->
                        df.col[c][j]]

C8_Causality ==
    (pc = "done" /\ Computed(data) /\ Computed(data2)) =>
        \A i \in FullRows(data, window) \cap FullRows(data2, window) :
            SameWindow(i) =>
                /\ BandValues(data, i) = BandValues(data2, i)
                /\ {BandValues(df_bb, j) : j \in Points(df_bb, i)}
                      = {BandValues(df_bb2, j) : j \in Points(df_bb2, i)}

\* two different series that agree on a full window whose row is returned
C8_Witness ==
    /\ pc = "done"
    /\ Computed(data) /\ Computed(data2)
    /\ Closes(data) # Closes(data2)
    /\ \E i \in FullRows(data, window) \cap FullRows(data2, window) :
          SameWindow(i) /\ Points(df_bb, i) # {}

\* C9: a second call on the same frame, with the same window and multiplier,
\* returns what the first call returned.
C9_Idempotent == pc = "done" => df_again = df_bb

C9_Witness == pc = "done" /\ Computed(df_bb) /\ Len(df_bb.index) > 1

\* C10: a fetched series with rows, but fewer than the window, ends the run in
\* the 'Not enough data' warning; the step that reads the latest row's
\* Upper_Band and Lower_Band is reached only with the band columns computed.
C10_ShortSeriesWarned ==
    /\ pc = "signal_status" => Computed(df_bb)
    /\ (pc \in {"done", "crashed"} /\ data # Unbound
           /\ Len(data.index) \in 1..(window - 1)) =>
          /\ raised = ""
          /\ "warning: not enough data" \in Range(messages)
====
